---- MODULE Spec2Model ----
(***************************************************************************)
(* filmdetect: recovery of a film recipe from a photograph's metadata and  *)
(* the ranking of the library's recipes against it.                        *)
(*                                                                         *)
(* Two copies of the library live in the repository and both are modelled: *)
(*   "root"  the package of src/unnamed/part_000                           *)
(*   "pkg"   src/pkg/filmdetect/filmdetect.go (the one cmd/root.go calls)  *)
(*                                                                         *)
(* Go strings are sequences of one-character strings, so that the regular  *)
(* expressions, strconv and strings.Contains are computed, not assumed.    *)
(***************************************************************************)
EXTENDS Integers, Sequences, FiniteSets, TLC

\* ------------------------------------------------------------------ bounds

\* Largest number of (tag, value) pairs in the metadata of one photograph.
MaxTags == 2

\* Largest recipe library of the end-to-end specification (Spec).
MaxLibrary == 1

\* Largest recipe library of the ranking specification (SpecRank).
MaxRecipes == 3

\* ----------------------------------------------------------------- strings

Digits == <<"0", "1", "2", "3", "4", "5", "6", "7", "8", "9">>

IsDigit(c) == \E d \in 1..10 : Digits[d] = c

IsSign(c) == c \in {"-", "+"}

DigitVal(c) == (CHOOSE d \in 1..10 : Digits[d] = c) - 1

\* The slice s[i:j] of Go, with 1-based inclusive ends: s[i..j].
Slice(s, i, j) == [n \in 1..(j - i + 1) |-> s[n + i - 1]]

\* Does the literal lit occur in s starting at position i?
HasAt(s, i, lit) ==
    /\ i >= 1
    /\ i + Len(lit) - 1 <= Len(s)
    /\ \A n \in 1..Len(lit) : s[i + n - 1] = lit[n]

\* strings.Contains(s, substr)
Contains(s, substr) == \E i \in 1..(Len(s) + 1) : HasAt(s, i, substr)

\* The last position of the run of digits that starts at position i
\* (i - 1 when s[i] is no digit): the greedy [0-9]+ of the patterns.
DigitsEnd(s, i) ==
    IF \E j \in i..Len(s) : ~IsDigit(s[j])
    THEN (CHOOSE j \in i..Len(s) :
              /\ ~IsDigit(s[j])
              /\ \A n \in i..(j - 1) : IsDigit(s[n])) - 1
    ELSE Len(s)

RECURSIVE NatOfDigits(_)
NatOfDigits(ds) ==
    IF ds = <<>> THEN 0
    ELSE 10 * NatOfDigits(SubSeq(ds, 1, Len(ds) - 1)) + DigitVal(ds[Len(ds)])

\* strconv.Atoi with its error dropped: 0 on a syntax error.
Atoi(s) ==
    LET body == IF s # <<>> /\ IsSign(s[1]) THEN Tail(s) ELSE s
    IN  IF body = <<>> \/ \E n \in 1..Len(body) : ~IsDigit(body[n])
        THEN 0
        ELSE IF s[1] = "-" THEN 0 - NatOfDigits(body) ELSE NatOfDigits(body)

RECURSIVE NatToStr(_)
NatToStr(n) ==
    IF n < 10 THEN <<Digits[n + 1]>>
    ELSE NatToStr(n \div 10) \o <<Digits[(n % 10) + 1]>>

\* fmt.Sprintf("%d", n)
IntToStr(n) == IF n < 0 THEN <<"-">> \o NatToStr(0 - n) ELSE NatToStr(n)

\* Go's integer division: the quotient truncated toward zero.
Quot(a, b) == IF a >= 0 THEN a \div b ELSE 0 - ((0 - a) \div b)

\* A float64 is modelled by its number of tenths (2000 is 200.0, -25 is -2.5).
\* strconv.FormatFloat(f, 'f', 0, 64): no decimals, rounded to nearest, a tie
\* to the even digit, and the sign kept even when the digits round to zero.
FormatFloat(t) ==
    LET m     == IF t < 0 THEN 0 - t ELSE t
        whole == m \div 10
        frac  == m % 10
        r     == IF frac > 5 \/ (frac = 5 /\ whole % 2 = 1)
                 THEN whole + 1 ELSE whole
    IN  IF t < 0 THEN <<"-">> \o NatToStr(r) ELSE NatToStr(r)

\* int(f): truncation toward zero.
IntOfFloat(t) == Quot(t, 10)

\* regexp `([\-+]?[0-9]+)`, FindStringSubmatch: the leftmost match, as
\* <<whole match, group 1>>; the nil slice <<>> when nothing matches.
IntStartsAt(s, i) ==
    \/ IsDigit(s[i])
    \/ IsSign(s[i]) /\ i + 1 <= Len(s) /\ IsDigit(s[i + 1])

FindInt(s) ==
    IF \E i \in 1..Len(s) : IntStartsAt(s, i)
    THEN LET i == CHOOSE p \in 1..Len(s) :
                      /\ IntStartsAt(s, p)
                      /\ \A q \in 1..(p - 1) : ~IntStartsAt(s, q)
             d == IF IsSign(s[i]) THEN i + 1 ELSE i
             m == Slice(s, i, DigitsEnd(s, d))
         IN  <<m, m>>
    ELSE <<>>

LitRed == <<"R", "e", "d", " ">>
LitBlue == <<",", " ", "B", "l", "u", "e", " ">>

\* regexp `Red ([\-+][0-9]+), Blue ([\-+][0-9]+)` anchored at position i:
\* the position after the red digits, or 0 when there is no match at i.
RedEndAt(s, i) ==
    IF /\ HasAt(s, i, LitRed)
       /\ i + 5 <= Len(s)
       /\ IsSign(s[i + 4])
       /\ IsDigit(s[i + 5])
    THEN DigitsEnd(s, i + 5)
    ELSE 0

FineTuneAt(s, i) ==
    LET e == RedEndAt(s, i)
    IN  /\ e > 0
        /\ HasAt(s, e + 1, LitBlue)
        /\ e + 9 <= Len(s)
        /\ IsSign(s[e + 8])
        /\ IsDigit(s[e + 9])

FindFineTune(s) ==
    IF \E i \in 1..Len(s) : FineTuneAt(s, i)
    THEN LET i == CHOOSE p \in 1..Len(s) :
                      /\ FineTuneAt(s, p)
                      /\ \A q \in 1..(p - 1) : ~FineTuneAt(s, q)
             e == RedEndAt(s, i)
             f == DigitsEnd(s, e + 9)
         IN  <<Slice(s, i, f), Slice(s, i + 4, e), Slice(s, e + 8, f)>>
    ELSE <<>>

\* ------------------------------------------------------------------ Recipe

\* type Recipe struct: the fields in declaration order, each with its name as
\* reflect reports it (name as a record key, chars as a Go string) and its type.
RecipeFields ==
    <<[name |-> "Name", chars |-> <<"N", "a", "m", "e">>,
       kind |-> "string"],
      [name |-> "Author", chars |-> <<"A", "u", "t", "h", "o", "r">>,
       kind |-> "string"],
      [name |-> "Url", chars |-> <<"U", "r", "l">>,
       kind |-> "string"],
      [name |-> "FilmSimulation", chars |-> <<"F", "i", "l", "m", "S", "i", "m", "u", "l", "a", "t", "i", "o", "n">>,
       kind |-> "string"],
      [name |-> "GrainEffectSize", chars |-> <<"G", "r", "a", "i", "n", "E", "f", "f", "e", "c", "t", "S", "i", "z", "e">>,
       kind |-> "string"],
      [name |-> "GrainEffectRoughness", chars |-> <<"G", "r", "a", "i", "n", "E", "f", "f", "e", "c", "t", "R", "o", "u", "g", "h", "n", "e", "s", "s">>,
       kind |-> "string"],
      [name |-> "ColorChromeEffect", chars |-> <<"C", "o", "l", "o", "r", "C", "h", "r", "o", "m", "e", "E", "f", "f", "e", "c", "t">>,
       kind |-> "string"],
      [name |-> "ColorChromeFXBlue", chars |-> <<"C", "o", "l", "o", "r", "C", "h", "r", "o", "m", "e", "F", "X", "B", "l", "u", "e">>,
       kind |-> "string"],
      [name |-> "WhiteBalanceMode", chars |-> <<"W", "h", "i", "t", "e", "B", "a", "l", "a", "n", "c", "e", "M", "o", "d", "e">>,
       kind |-> "string"],
      [name |-> "WhiteBalanceRed", chars |-> <<"W", "h", "i", "t", "e", "B", "a", "l", "a", "n", "c", "e", "R", "e", "d">>,
       kind |-> "int"],
      [name |-> "WhiteBalanceBlue", chars |-> <<"W", "h", "i", "t", "e", "B", "a", "l", "a", "n", "c", "e", "B", "l", "u", "e">>,
       kind |-> "int"],
      [name |-> "DynamicRange", chars |-> <<"D", "y", "n", "a", "m", "i", "c", "R", "a", "n", "g", "e">>,
       kind |-> "string"],
      [name |-> "Highlights", chars |-> <<"H", "i", "g", "h", "l", "i", "g", "h", "t", "s">>,
       kind |-> "int"],
      [name |-> "Shadows", chars |-> <<"S", "h", "a", "d", "o", "w", "s">>,
       kind |-> "int"],
      [name |-> "Color", chars |-> <<"C", "o", "l", "o", "r">>,
       kind |-> "int"],
      [name |-> "Sharpness", chars |-> <<"S", "h", "a", "r", "p", "n", "e", "s", "s">>,
       kind |-> "int"],
      [name |-> "NoiseReduction", chars |-> <<"N", "o", "i", "s", "e", "R", "e", "d", "u", "c", "t", "i", "o", "n">>,
       kind |-> "int"],
      [name |-> "Clarity", chars |-> <<"C", "l", "a", "r", "i", "t", "y">>,
       kind |-> "int"]>>

NumField == Len(RecipeFields)

FieldNames == {RecipeFields[i].name : i \in 1..NumField}

FieldIndex(f) == (CHOOSE i \in 1..NumField : RecipeFields[i].name = f)

\* Recipe{}: the zero value of every field.
ZeroRecipe ==
    [f \in FieldNames |->
        IF RecipeFields[FieldIndex(f)].kind = "string" THEN <<>> ELSE 0]

\* FullScore: 16 in the root package, 15 in pkg/filmdetect.
FullScoreRoot == 16
FullScorePkg == 15

\* Mutant of FullScore: pkg/filmdetect keeps the constant of the root package.
FullScoreStale(variant) == FullScoreRoot

FullScore(variant) == IF variant = "root" THEN FullScoreRoot ELSE FullScorePkg

\* The string literals of the source.
S_Auto == <<"A", "u", "t", "o">>
S_Normal == <<"N", "o", "r", "m", "a", "l">>
S_Off == <<"O", "f", "f">>
S_Small == <<"S", "m", "a", "l", "l">>
S_Large == <<"L", "a", "r", "g", "e">>
S_Softest == <<"S", "o", "f", "t", "e", "s", "t">>
S_VerySoft == <<"V", "e", "r", "y", " ", "S", "o", "f", "t">>
S_Soft == <<"S", "o", "f", "t">>
S_MediumSoft == <<"M", "e", "d", "i", "u", "m", " ", "S", "o", "f", "t">>
S_MediumHard == <<"M", "e", "d", "i", "u", "m", " ", "H", "a", "r", "d">>
S_Hard == <<"H", "a", "r", "d">>
S_VeryHard == <<"V", "e", "r", "y", " ", "H", "a", "r", "d">>
S_Hardest == <<"H", "a", "r", "d", "e", "s", "t">>
\* Mutant of S_NameAuthorUrl: the literal without Url.
S_NameAuthor == <<"N", "a", "m", "e", " ", "A", "u", "t", "h", "o", "r">>
S_NameAuthorUrl == <<"N", "a", "m", "e", " ", "A", "u", "t", "h", "o", "r", " ", "U", "r", "l">>

\* -------------------------------------------------------------- extraction

\* A raw tag value of the metadata mapping (interface{}): a string, a float64
\* (in tenths), or a value of another type (a JSON list, a bool, nil).
Str(s) == [type |-> "string", s |-> s, f |-> 0]
Flt(t) == [type |-> "float64", s |-> <<>>, f |-> t]
Other == [type |-> "other", s |-> <<>>, f |-> 0]

\* One pass of the body of `for k, v := range fileInfo.Fields`.
\*   kind "next"   the body ran to its end (or hit `continue`)
\*   kind "error"  the body returned Recipe{} and an error
\*   kind "panic"  the body indexed the nil slice of a failed match
Continue(r) == [kind |-> "next", recipe |-> r, err |-> "nil"]
ReturnErr(msg) == [kind |-> "error", recipe |-> ZeroRecipe, err |-> msg]
Panic(r) == [kind |-> "panic", recipe |-> r, err |-> "index out of range"]

\* Mutant of Tone: the four blocks all assign recipe.Highlights.
ToneOneField(r, field, stringValue, msg) ==
    LET matches == FindInt(stringValue)
    IN  IF Len(matches) < 2
        THEN ReturnErr(msg)
        ELSE Continue([r EXCEPT !.Highlights = Atoi(matches[2])])

\* The four blocks `if k == "HighlightTone"` ... `if k == "NoiseReduction"`.
Tone(r, field, stringValue, msg) ==
    LET matches == FindInt(stringValue)
    IN  IF Len(matches) < 2
        THEN ReturnErr(msg)
        ELSE Continue([r EXCEPT ![field] = Atoi(matches[2])])

\* The block `if k == "WhiteBalanceFineTune"`: matches[1] and matches[2] are
\* read without a check of the match.
WhiteBalanceFineTune(r, stringValue) ==
    LET matches == FindFineTune(stringValue)
    IN  IF Len(matches) < 2
        THEN Panic(r)
        ELSE Continue([r EXCEPT
                 !.WhiteBalanceRed = Quot(Atoi(matches[2]), 20),
                 !.WhiteBalanceBlue = Quot(Atoi(matches[3]), 20)])

\* The block `if k == "Sharpness"`: a switch without a default.
Sharpness(r, stringValue) ==
    CASE stringValue = S_Softest    -> [r EXCEPT !.Sharpness = -4]
      [] stringValue = S_VerySoft   -> [r EXCEPT !.Sharpness = -3]
      [] stringValue = S_Soft       -> [r EXCEPT !.Sharpness = -2]
      [] stringValue = S_MediumSoft -> [r EXCEPT !.Sharpness = -1]
      [] stringValue = S_Normal     -> [r EXCEPT !.Sharpness = 0]
      [] stringValue = S_MediumHard -> [r EXCEPT !.Sharpness = 1]
      [] stringValue = S_Hard       -> [r EXCEPT !.Sharpness = 2]
      [] stringValue = S_VeryHard   -> [r EXCEPT !.Sharpness = 3]
      [] stringValue = S_Hardest    -> [r EXCEPT !.Sharpness = 4]
      [] OTHER                      -> r

\* The tag that fills GrainEffectRoughness.
RoughnessTag(variant) ==
    IF variant = "root" THEN "GrainEffectRoughness" ELSE "GrainEffect"

\* The chain `if k == "FilmMode"` ... `if k == "GrainEffectSize"` of the loop
\* body, after the type switch has set stringValue and floatValue.
Assign(variant, r, k, stringValue, floatValue) ==
    CASE k = "FilmMode" ->
           Continue([r EXCEPT !.FilmSimulation = stringValue])
      [] k = RoughnessTag(variant) ->
           Continue([r EXCEPT !.GrainEffectRoughness = stringValue])
      [] k = "ColorChromeEffect" ->
           Continue([r EXCEPT !.ColorChromeEffect = stringValue])
      [] k = "ColorChromeFXBlue" ->
           Continue([r EXCEPT !.ColorChromeFXBlue = stringValue])
      [] k = "WhiteBalance" ->
           Continue([r EXCEPT !.WhiteBalanceMode = stringValue])
      [] k = "WhiteBalanceFineTune" ->
           WhiteBalanceFineTune(r, stringValue)
      [] k = "DevelopmentDynamicRange" ->
           Continue([r EXCEPT !.DynamicRange = FormatFloat(floatValue)])
      [] k = "HighlightTone" ->
           Tone(r, "Highlights", stringValue, "Unexpected highlight value")
      [] k = "ShadowTone" ->
           Tone(r, "Shadows", stringValue, "Unexpected shadow value")
      [] k = "Saturation" ->
           Tone(r, "Color", stringValue, "Unexpected saturation value")
      [] k = "Sharpness" ->
           Continue(Sharpness(r, stringValue))
      [] k = "NoiseReduction" ->
           Tone(r, "NoiseReduction", stringValue,
                "Unexpected noise reduction value")
      [] k = "Clarity" /\ variant = "root" ->
           Continue([r EXCEPT !.Clarity = IntOfFloat(floatValue)])
      [] k = "GrainEffectSize" /\ variant = "root" ->
           Continue([r EXCEPT !.GrainEffectSize = stringValue])
      [] OTHER -> Continue(r)

\* Mutant of LoopBody: the type switch without its `case float64`.
LoopBodyStringsOnly(variant, r, k, v) ==
    IF k = "Subject" THEN Continue(r)
    ELSE IF v.type # "string"
    THEN ReturnErr("Field value isn't string of float.")
    ELSE Assign(variant, r, k, v.s, 0)

\* The loop body: the Subject check, the type switch, the chain of ifs.
LoopBody(variant, r, k, v) ==
    IF k = "Subject" THEN Continue(r)
    ELSE IF v.type \notin {"string", "float64"}
    THEN ReturnErr("Field value isn't string of float.")
    ELSE Assign(variant, r, k,
                IF v.type = "string" THEN v.s ELSE <<>>,
                IF v.type = "float64" THEN v.f ELSE 0)

\* The second half of GetRecipeFromFile in pkg/filmdetect: the maker note read
\* through goexif. A maker note is
\*   [status, grain, clarity]: status "ok", or the call that failed.
MakerNoteErrors ==
    {"os.Open", "exif.Decode", "not Fujifilm", "no Clarity",
     "no GrainEffectSize", "GrainEffectSize not int"}

GrainEffectSizeName(r, grainEffectSizeValue) ==
    CASE grainEffectSizeValue = 0  -> [r EXCEPT !.GrainEffectSize = S_Off]
      [] grainEffectSizeValue = 16 -> [r EXCEPT !.GrainEffectSize = S_Small]
      [] grainEffectSizeValue = 32 -> [r EXCEPT !.GrainEffectSize = S_Large]
      [] OTHER -> r

MakerNote(r, mn) ==
    IF mn.status # "ok" THEN ReturnErr(mn.status)
    ELSE LET g == GrainEffectSizeName(r, mn.grain)
         IN  Continue([g EXCEPT !.Clarity =
                 IF mn.clarity # 0 THEN Quot(mn.clarity, 1000) ELSE mn.clarity])

\* ------------------------------------------------------- difference engine

\* fmt.Sprintf("%v", value) of the field at index i.
Sprintf(i, value) ==
    IF RecipeFields[i].kind = "int" THEN IntToStr(value) ELSE value

\* The fields `strings.Contains("Name Author Url", fieldName)` skips: those
\* whose name occurs in the literal.
Skipped ==
    {i \in 1..NumField : Contains(S_NameAuthorUrl, RecipeFields[i].chars)}

\* Mutant of GetLinesFrom: each triple is put in front of the ones found so
\* far, as if `result = append([][]string{line}, result...)` were walked from
\* the last field.
RECURSIVE GetLinesPrepended(_, _, _)
GetLinesPrepended(input, candidate, i) ==
    IF i > NumField THEN <<>>
    ELSE LET fieldName == RecipeFields[i].chars
             vInputValue == input[RecipeFields[i].name]
             vCandidateValue == candidate[RecipeFields[i].name]
             rest == GetLinesPrepended(input, candidate, i + 1)
         IN  IF i \in Skipped THEN rest
             ELSE IF vInputValue # vCandidateValue
             THEN rest \o <<<<fieldName, Sprintf(i, vInputValue),
                              Sprintf(i, vCandidateValue)>>>>
             ELSE rest

\* Difference.GetLines: the loop over the fields, from field i on.
RECURSIVE GetLinesFrom(_, _, _)
GetLinesFrom(input, candidate, i) ==
    IF i > NumField THEN <<>>
    ELSE LET fieldName == RecipeFields[i].chars
             vInputValue == input[RecipeFields[i].name]
             vCandidateValue == candidate[RecipeFields[i].name]
             rest == GetLinesFrom(input, candidate, i + 1)
         IN  IF i \in Skipped THEN rest
             ELSE IF vInputValue # vCandidateValue
             THEN <<<<fieldName, Sprintf(i, vInputValue),
                      Sprintf(i, vCandidateValue)>>>> \o rest
             ELSE rest

GetLines(input, candidate) == GetLinesFrom(input, candidate, 1)

DifferenceFromRecipes(input, candidate) ==
    [Input |-> input, Candidate |-> candidate,
     Lines |-> GetLines(input, candidate)]

IsFullScore(d) == Len(d.Lines) = 0

Score(variant, d) == FullScore(variant) - Len(d.Lines)

\* ----------------------------------------------------------------- matcher

\* The loop `for _, candidate := range recipes`.
Differences(recipe, recipes) ==
    [i \in 1..Len(recipes) |-> DifferenceFromRecipes(recipe, recipes[i])]

Orders(n) == {p \in [1..n -> 1..n] : \A i, j \in 1..n : i # j => p[i] # p[j]}

\* Mutant of SortSlice: the slice is left in the order loaded.
SortSliceSkipped(variant, differences) == {differences}

\* sort.Slice with less(i, j) = Score(i) > Score(j): some permutation of the
\* slice in which no element has a higher score than one before it. The sort
\* is not stable, so every such permutation is a possible result.
SortSlice(variant, differences) ==
    {s \in {[i \in 1..Len(differences) |-> differences[p[i]]] :
                p \in Orders(Len(differences))} :
        \A i, j \in 1..Len(s) :
            i < j => ~(Score(variant, s[j]) > Score(variant, s[i]))}

Returned(res, perfect) == [result |-> res, perfectMatch |-> perfect]

\* Mutant of Scan: `topScore >= diff.Score()`, which stops at the first tie.
RECURSIVE ScanStopsAtTie(_, _, _, _, _)
ScanStopsAtTie(variant, differences, i, topScore, resultDifferences) ==
    IF i > Len(differences) THEN Returned(resultDifferences, FALSE)
    ELSE LET diff == differences[i]
         IN  IF IsFullScore(diff) THEN Returned(<<diff>>, TRUE)
             ELSE IF topScore # 0
             THEN IF topScore >= Score(variant, diff)
                  THEN Returned(resultDifferences, FALSE)
                  ELSE ScanStopsAtTie(variant, differences, i + 1, topScore,
                                      Append(resultDifferences, diff))
             ELSE ScanStopsAtTie(variant, differences, i + 1,
                                 Score(variant, diff),
                                 Append(resultDifferences, diff))

\* The loop `for _, diff := range differences` with its early returns, from
\* element i on, with the values of topScore and resultDifferences so far.
RECURSIVE Scan(_, _, _, _, _)
Scan(variant, differences, i, topScore, resultDifferences) ==
    IF i > Len(differences) THEN Returned(resultDifferences, FALSE)
    ELSE LET diff == differences[i]
         IN  IF IsFullScore(diff) THEN Returned(<<diff>>, TRUE)
             ELSE IF topScore # 0
             THEN IF topScore > Score(variant, diff)
                  THEN Returned(resultDifferences, FALSE)
                  ELSE Scan(variant, differences, i + 1, topScore,
                            Append(resultDifferences, diff))
             ELSE Scan(variant, differences, i + 1, Score(variant, diff),
                       Append(resultDifferences, diff))

\* ------------------------------------------------------------------ inputs

\* Raw tag values and recipe names used as inputs.
V_Astia == <<"A", "s", "t", "i", "a">>
V_Weak == <<"W", "e", "a", "k">>
V_Strong == <<"S", "t", "r", "o", "n", "g">>
V_Fuji == <<"F", "U", "J", "I", "F", "I", "L", "M">>
V_FineTune == <<"R", "e", "d", " ", "+", "4", "0", ",", " ", "B", "l", "u", "e", " ", "-", "2", "0">>
V_FineTuneOdd == <<"R", "e", "d", " ", "+", "3", "0", ",", " ", "B", "l", "u", "e", " ", "-", "5", "0">>
V_RedOnly == <<"R", "e", "d", " ", "+", "4", "0">>
V_Plus2 == <<"+", "2">>
V_StrongSomething == <<"S", "t", "r", "o", "n", "g", " ", "S", "o", "m", "e", "t", "h", "i", "n", "g">>
V_Minus1 == <<"-", "1", " ", "(", "s", "o", "f", "t", ")">>
V_Plus4 == <<"+", "4", " ", "(", "h", "i", "g", "h", ")">>
V_Minus4 == <<"-", "4", " ", "(", "w", "e", "a", "k", "e", "s", "t", ")">>
V_HardestBang == <<"H", "a", "r", "d", "e", "s", "t", "!">>
N_Portra == <<"P", "o", "r", "t", "r", "a">>
N_B == <<"B">>
N_C == <<"C">>
N_D == <<"D">>
N_Far == <<"F", "a", "r">>
N_Honza == <<"h", "o", "n", "z", "a">>
N_Url == <<"h", "t", "t", "p", ":", "/", "/", "x">>
Variants == {"root", "pkg"}

\* The tag names a photograph's metadata may carry: the ones either package
\* reads, "Subject", and "Make", which neither reads.
TagNames ==
    {"FilmMode", "GrainEffectRoughness", "GrainEffect", "ColorChromeEffect",
     "ColorChromeFXBlue", "WhiteBalance", "WhiteBalanceFineTune",
     "DevelopmentDynamicRange", "HighlightTone", "ShadowTone", "Saturation",
     "Sharpness", "NoiseReduction", "Clarity", "GrainEffectSize", "Subject",
     "Make"}

\* The names GetRecipeFromFile compares k with in its tag loop.
Recognized(variant) ==
    {"Subject", "FilmMode", RoughnessTag(variant), "ColorChromeEffect",
     "ColorChromeFXBlue", "WhiteBalance", "WhiteBalanceFineTune",
     "DevelopmentDynamicRange", "HighlightTone", "ShadowTone", "Saturation",
     "Sharpness", "NoiseReduction"}
    \cup (IF variant = "root" THEN {"Clarity", "GrainEffectSize"} ELSE {})

SharpnessLabels ==
    {S_Softest, S_VerySoft, S_Soft, S_MediumSoft, S_Normal, S_MediumHard,
     S_Hard, S_VeryHard, S_Hardest}

\* The raw values each tag is given.
ValuesFor(k) ==
    CASE k = "FilmMode" -> {Str(V_Astia), Other}
      [] k \in {"GrainEffectRoughness", "GrainEffect"} -> {Str(V_Weak)}
      [] k = "ColorChromeEffect" -> {Str(V_Strong)}
      [] k = "ColorChromeFXBlue" -> {Str(S_Off)}
      [] k = "WhiteBalance" -> {Str(S_Auto)}
      [] k = "WhiteBalanceFineTune" ->
           {Str(V_FineTune), Str(V_FineTuneOdd), Str(<<>>), Str(V_RedOnly)}
      [] k = "DevelopmentDynamicRange" -> {Flt(2000), Flt(25)}
      [] k = "HighlightTone" ->
           {Str(V_Plus2), Str(S_Normal), Str(<<>>), Str(V_StrongSomething)}
      [] k = "ShadowTone" -> {Str(V_Minus1), Str(S_Normal)}
      [] k = "Saturation" -> {Str(V_Plus4), Str(<<>>)}
      [] k = "Sharpness" ->
           {Str(s) : s \in SharpnessLabels} \cup {Str(V_HardestBang)}
      [] k = "NoiseReduction" -> {Str(V_Minus4), Str(V_StrongSomething)}
      [] k = "Clarity" -> {Flt(30), Flt(-25)}
      [] k = "GrainEffectSize" -> {Str(S_Small)}
      [] k = "Subject" -> {Other, Str(V_Astia)}
      [] k = "Make" -> {Str(V_Fuji), Other, Flt(10)}

\* Every mapping from the tags of K to one of their values.
RECURSIVE MapsOver(_)
MapsOver(K) ==
    IF K = {} THEN {<<>>}
    ELSE LET k == CHOOSE x \in K : TRUE
         IN  {(k :> v) @@ m : v \in ValuesFor(k), m \in MapsOver(K \ {k})}

\* fileInfo.Fields: the metadata mappings of at most MaxTags tags.
TagMaps ==
    UNION {MapsOver(K) : K \in {S \in SUBSET TagNames : Cardinality(S) <= MaxTags}}

Without(m, k) == [x \in (DOMAIN m) \ {k} |-> m[x]]

\* The maker notes goexif may find in the file (pkg/filmdetect only).
MakerNotes ==
    {[status |-> "ok", grain |-> 16, clarity |-> 2000],
     [status |-> "ok", grain |-> 8, clarity |-> 0],
     [status |-> "ok", grain |-> 32, clarity |-> -2500]}
    \cup {[status |-> e, grain |-> 0, clarity |-> 0] : e \in MakerNoteErrors}

\* recipe := Recipe{DynamicRange: "Auto"}
NewRecipe == [ZeroRecipe EXCEPT !.DynamicRange = S_Auto]

\* The recipes a library may hold for a photograph whose record is r: r under
\* no name and under a name, three near misses, and one that differs from r in
\* every field.
Bump(r, f) ==
    IF RecipeFields[FieldIndex(f)].kind = "int" THEN r[f] + 1
    ELSE r[f] \o <<"~">>

Candidates(r) ==
    {r,
     [r EXCEPT !.Name = N_Portra, !.Author = N_Honza, !.Url = N_Url],
     [r EXCEPT !.Name = N_B, !.Sharpness = Bump(r, "Sharpness")],
     [r EXCEPT !.Name = N_C, !.FilmSimulation = Bump(r, "FilmSimulation")],
     [r EXCEPT !.Name = N_D, !.Highlights = Bump(r, "Highlights"),
                             !.DynamicRange = Bump(r, "DynamicRange")],
     [f \in FieldNames |-> IF f = "Name" THEN N_Far ELSE Bump(r, f)]}

\* The libraries of at most n recipes.
Libraries(r, n) == UNION {[1..m -> Candidates(r)] : m \in 0..n}

\* The photographs whose records the ranking specification starts from, each
\* as the pairs of its metadata in one order of iteration.
SamplePhotos ==
    {<<>>,
     <<<<"FilmMode", Str(V_Astia)>>, <<"Sharpness", Str(S_Hardest)>>,
       <<"WhiteBalanceFineTune", Str(V_FineTuneOdd)>>,
       <<"DevelopmentDynamicRange", Flt(2000)>>,
       <<"HighlightTone", Str(V_Plus2)>>, <<"ShadowTone", Str(V_Minus1)>>,
       <<"NoiseReduction", Str(V_Minus4)>>, <<"Clarity", Flt(-25)>>,
       <<"GrainEffectSize", Str(S_Small)>>, <<"WhiteBalance", Str(S_Auto)>>>>,
     <<<<"Saturation", Str(V_Plus4)>>, <<"ColorChromeEffect", Str(V_Strong)>>>>}

\* GetRecipeFromFile over the pairs of a photograph in the order given, with
\* the maker note mn: "none" when the extraction fails or panics.
RECURSIVE RangeOver(_, _, _)
RangeOver(variant, r, pairs) ==
    IF pairs = <<>> THEN Continue(r)
    ELSE LET o == LoopBody(variant, r, pairs[1][1], pairs[1][2])
         IN  IF o.kind = "next" THEN RangeOver(variant, o.recipe, Tail(pairs))
             ELSE o

Extracted(variant, pairs, mn) ==
    LET o == RangeOver(variant, NewRecipe, pairs)
    IN  IF o.kind = "next" /\ variant = "pkg" THEN MakerNote(o.recipe, mn) ELSE o

SampleRecords(variant) ==
    {o.recipe : o \in {x \in {Extracted(variant, p, mn) :
                                  p \in SamplePhotos, mn \in MakerNotes} :
                          x.kind = "next"}}

\* ----------------------------------------------------------- state machine

VARIABLES
    variant,        \* which package runs: "root" or "pkg"
    pc,             \* "start", "loop", "makernote", "rank", "done", "panic"
    fields,         \* fileInfo.Fields: the pairs the tag loop has yet to visit
    cur,            \* the loop's k and v: the pair visited last
    recipe,         \* GetRecipeFromFile's recipe, then Detect's recipe
    err,            \* the error returned, "nil" when none
    recipes,        \* the library: the candidates in the order loaded
    differences,    \* Detect's differences, after the sort
    result,         \* the []Difference returned
    perfectMatch    \* the bool returned

vars ==
    <<variant, pc, fields, cur, recipe, err, recipes, differences, result,
      perfectMatch>>

NoPair == [k |-> "", v |-> Other]

Init ==
    /\ variant \in Variants
    /\ pc = "start"
    /\ fields \in TagMaps
    /\ cur = NoPair
    /\ recipe = ZeroRecipe
    /\ err = "nil"
    /\ recipes = <<>>
    /\ differences = <<>>
    /\ result = <<>>
    /\ perfectMatch = FALSE

\* `return resultDifferences, false, err` with `return Recipe{}, err` before it
\* when the error is GetRecipeFromFile's.
ReturnError(e) ==
    /\ pc' = "done"
    /\ recipe' = ZeroRecipe
    /\ err' = e
    /\ result' = <<>>
    /\ perfectMatch' = FALSE
    /\ UNCHANGED <<variant, fields, recipes, differences>>

\* Detect: GetRecipes fails on the directory or on one of its files.
GetRecipesFails ==
    /\ pc = "start"
    /\ cur' = cur
    /\ ReturnError("GetRecipes")

\* GetRecipeFromFile: exiftool.NewExiftool fails.
NewExiftoolFails ==
    /\ pc = "start"
    /\ cur' = cur
    /\ ReturnError("NewExiftool")

\* GetRecipeFromFile up to the tag loop; fileInfo.Err is nil.
EnterLoop ==
    /\ pc = "start"
    /\ pc' = "loop"
    /\ recipe' = NewRecipe
    /\ UNCHANGED <<variant, fields, cur, err, recipes, differences, result,
                   perfectMatch>>

\* fileInfo.Err is set: `continue`, so no pair of the file is visited.
FileInfoErr ==
    /\ pc = "start"
    /\ pc' = IF variant = "root" THEN "rank" ELSE "makernote"
    /\ recipe' = NewRecipe
    /\ fields' = <<>>
    /\ UNCHANGED <<variant, cur, err, recipes, differences, result,
                   perfectMatch>>

\* One pass of the tag loop over a pair not yet visited; Go ranges over a map
\* in an unspecified order.
TagLoop ==
    /\ pc = "loop"
    /\ \E k \in DOMAIN fields :
        LET o == LoopBody(variant, recipe, k, fields[k])
        IN  /\ cur' = [k |-> k, v |-> fields[k]]
            /\ CASE o.kind = "next" ->
                      /\ recipe' = o.recipe
                      /\ fields' = Without(fields, k)
                      /\ UNCHANGED <<variant, pc, err, recipes, differences,
                                     result, perfectMatch>>
                 [] o.kind = "error" -> ReturnError(o.err)
                 [] o.kind = "panic" ->
                      /\ pc' = "panic"
                      /\ err' = o.err
                      /\ UNCHANGED <<variant, fields, recipe, recipes,
                                     differences, result, perfectMatch>>

\* The tag loop has visited every pair.
LoopEnd ==
    /\ pc = "loop"
    /\ DOMAIN fields = {}
    /\ pc' = IF variant = "root" THEN "rank" ELSE "makernote"
    /\ cur' = NoPair
    /\ UNCHANGED <<variant, fields, recipe, err, recipes, differences, result,
                   perfectMatch>>

\* pkg/filmdetect: Clarity and GrainEffectSize from the maker note.
ReadMakerNote ==
    /\ pc = "makernote"
    /\ cur' = cur
    /\ \E mn \in MakerNotes :
        LET o == MakerNote(recipe, mn)
        IN  IF o.kind = "error" THEN ReturnError(o.err)
            ELSE /\ pc' = "rank"
                 /\ recipe' = o.recipe
                 /\ UNCHANGED <<variant, fields, err, recipes, differences,
                                result, perfectMatch>>

\* DetectFromRecipes (Detect in pkg/filmdetect) after the extraction, over a
\* library of at most n recipes: compare, sort, scan. The library is an input
\* nothing reads before this point, so it is drawn here.
DetectRank(n) ==
    /\ pc = "rank"
    /\ \E lib \in Libraries(recipe, n) :
        \E sorted \in SortSlice(variant, Differences(recipe, lib)) :
            LET ret == Scan(variant, sorted, 1, 0, <<>>)
            IN  /\ recipes' = lib
                /\ differences' = sorted
                /\ result' = ret.result
                /\ perfectMatch' = ret.perfectMatch
    /\ pc' = "done"
    /\ UNCHANGED <<variant, fields, cur, recipe, err>>

Rank == DetectRank(MaxLibrary)

Next ==
    \/ GetRecipesFails
    \/ NewExiftoolFails
    \/ EnterLoop
    \/ FileInfoErr
    \/ TagLoop
    \/ LoopEnd
    \/ ReadMakerNote
    \/ Rank

Spec == Init /\ [][Next]_vars

\* The ranking on its own: the state after the extraction of a sample
\* photograph, and libraries of up to MaxRecipes recipes.
InitRank ==
    /\ variant \in Variants
    /\ pc = "rank"
    /\ fields = <<>>
    /\ cur = NoPair
    /\ recipe \in SampleRecords(variant)
    /\ err = "nil"
    /\ recipes = <<>>
    /\ differences = <<>>
    /\ result = <<>>
    /\ perfectMatch = FALSE

RankLibrary == DetectRank(MaxRecipes)

NextRank == RankLibrary

SpecRank == InitRank /\ [][NextRank]_vars

\* ------------------------------------------------------------------ claims

\* The scored attributes of a record as the specification lists them: every
\* field but the identity ones.
ScoredAttributes == FieldNames \ {"Name", "Author", "Url"}

Mismatching(a, b) == {f \in ScoredAttributes : a[f] # b[f]}

\* Detect returned the outcome of a ranking.
Ranked == pc = "done" /\ err = "nil"

PerfectCandidates == {i \in 1..Len(recipes) : Mismatching(recipe, recipes[i]) = {}}

\* C1: the ranking returns perfectMatch = true with exactly one Difference if
\* and only if some candidate has no mismatching scored attribute against the
\* input; the Difference returned is then that of such a candidate and has an
\* empty mismatch list, and otherwise perfectMatch is false.
C1_PerfectMatchIffCandidate ==
    Ranked =>
        /\ (perfectMatch /\ Len(result) = 1) <=> (PerfectCandidates # {})
        /\ PerfectCandidates # {} =>
              /\ result[1].Lines = <<>>
              /\ \E i \in PerfectCandidates :
                    result[1] = DifferenceFromRecipes(recipe, recipes[i])
        /\ PerfectCandidates = {} => ~perfectMatch

\* A library of three whose perfect match is loaded last, behind two recipes
\* of different scores that the sort has to move.
C1_Witness ==
    /\ Ranked
    /\ Len(recipes) = 3
    /\ PerfectCandidates = {3}
    /\ Cardinality(Mismatching(recipe, recipes[1])) = 1
    /\ Cardinality(Mismatching(recipe, recipes[2])) = 2
    /\ perfectMatch

\* The candidates no other candidate beats: the fewest mismatches.
TopCandidates ==
    {i \in 1..Len(recipes) :
        \A j \in 1..Len(recipes) :
            Cardinality(Mismatching(recipe, recipes[i]))
                <= Cardinality(Mismatching(recipe, recipes[j]))}

Occurrences(seq, x) == Cardinality({i \in 1..Len(seq) : seq[i] = x})

\* C2: without a perfect match the ranking returns the Differences of exactly
\* the candidates of the highest score, each as often as the library holds
\* it, and perfectMatch = false; an empty library gives an empty result.
C2_TopGroupReturned ==
    (Ranked /\ PerfectCandidates = {}) =>
        /\ ~perfectMatch
        /\ Len(result) = Cardinality(TopCandidates)
        /\ \A i \in 1..Len(recipes) :
              Occurrences(result, DifferenceFromRecipes(recipe, recipes[i]))
                  = IF i \in TopCandidates
                    THEN Occurrences(recipes, recipes[i]) ELSE 0
        /\ recipes = <<>> => result = <<>>

\* Two different recipes tie at the top behind a lower-scoring one loaded
\* first: both are returned and the third is not.
C2_Witness ==
    /\ Ranked
    /\ Len(recipes) = 3
    /\ TopCandidates = {2, 3}
    /\ recipes[2] # recipes[3]
    /\ Len(result) = 2

\* The top group at the lowest score there is: every scored attribute of every
\* candidate differs, and pkg/filmdetect scores them 0.
C2_WitnessLowest ==
    /\ Ranked
    /\ Len(recipes) >= 2
    /\ \A i \in 1..Len(recipes) : Mismatching(recipe, recipes[i]) = ScoredAttributes
    /\ \A i \in 1..Len(result) : Score(variant, result[i]) = 0
    /\ Len(result) = Len(recipes)

SelfCompared == {i \in 1..Len(differences) : differences[i].Input = differences[i].Candidate}

Identities == {<<<<>>, <<>>, <<>>>>, <<N_Portra, N_Honza, N_Url>>}

Renamed(r, id) == [r EXCEPT !.Name = id[1], !.Author = id[2], !.Url = id[3]]

\* C4: the comparison ignores Name, Author and Url: records that agree on
\* every scored attribute compare as a perfect match whatever their
\* identities, and giving either record another identity changes neither the
\* mismatch list nor the score.
C4_IdentityIgnored ==
    \A i \in 1..Len(differences) :
        LET d == differences[i]
        IN  /\ Mismatching(d.Input, d.Candidate) = {} => d.Lines = <<>>
            /\ \A a, b \in Identities :
                  LET e == DifferenceFromRecipes(Renamed(d.Input, a),
                                                 Renamed(d.Candidate, b))
                  IN  /\ e.Lines = d.Lines
                      /\ Score(variant, e) = Score(variant, d)

\* A candidate that differs from the input in Name, Author and Url and in
\* nothing else, next to one that differs in a scored attribute too.
C4_Witness ==
    /\ Ranked
    /\ \E i \in 1..Len(differences) :
          LET d == differences[i]
          IN  /\ d.Input.Name # d.Candidate.Name
              /\ d.Input.Author # d.Candidate.Author
              /\ d.Input.Url # d.Candidate.Url
              /\ d.Lines = <<>>
    /\ \E i \in 1..Len(differences) : differences[i].Lines # <<>>

\* C5 as stated: FullScore is the number of attributes the comparison
\* examines, so the score of a Difference is the number of scored attributes
\* on which its two records agree.
C5_ScoreCountsMatches ==
    \A i \in 1..Len(differences) :
        /\ FullScore(variant) = NumField - Cardinality(Skipped)
        /\ Score(variant, differences[i])
              = Cardinality(ScoredAttributes
                              \ Mismatching(differences[i].Input,
                                            differences[i].Candidate))

\* The pair visited last was a string value of tag k.
Visited(k) == cur.k = k /\ cur.v.type = "string"

\* The loop went on after the pair visited last.
WentOn == pc = "loop" /\ err = "nil"

\* Detect returned an error, nothing else, and ranked nothing.
Failed ==
    /\ pc = "done"
    /\ err # "nil"
    /\ recipe = ZeroRecipe
    /\ result = <<>>
    /\ ~perfectMatch
    /\ differences = <<>>

\* C6 as stated: the white-balance fine tune never crashes: the empty string
\* gives the offsets (0, 0) and the extraction goes on, and a non-empty string
\* that does not match `Red <int>, Blue <int>` makes the extraction return an
\* error.
C6_FineTuneNeverCrashes ==
    /\ pc # "panic"
    /\ Visited("WhiteBalanceFineTune") =>
          /\ cur.v.s = <<>> =>
                /\ WentOn
                /\ recipe.WhiteBalanceRed = 0
                /\ recipe.WhiteBalanceBlue = 0
          /\ (cur.v.s # <<>> /\ FindFineTune(cur.v.s) = <<>>) => Failed

\* The tone tags and the field each fills.
ToneField ==
    [HighlightTone |-> "Highlights", ShadowTone |-> "Shadows",
     Saturation |-> "Color", NoiseReduction |-> "NoiseReduction"]

\* C7 as stated: for each tone tag, the empty string and "Normal" give 0 and
\* the extraction goes on, a value with an integer in it gives the first such
\* integer, and any other value makes the extraction return an error.
C7_ToneNormalIsZero ==
    \A k \in DOMAIN ToneField :
        Visited(k) =>
            IF cur.v.s \in {<<>>, S_Normal}
            THEN WentOn /\ recipe[ToneField[k]] = 0
            ELSE IF FindInt(cur.v.s) # <<>>
            THEN WentOn /\ recipe[ToneField[k]] = Atoi(FindInt(cur.v.s)[1])
            ELSE Failed

\* Softest ... Hardest in the order of the scale.
SharpnessScale ==
    <<S_Softest, S_VerySoft, S_Soft, S_MediumSoft, S_Normal, S_MediumHard,
      S_Hard, S_VeryHard, S_Hardest>>

\* C8 as stated: the nine labels map to -4 .. 4 in steps of one, and any
\* other Sharpness value makes the extraction return an error.
C8_SharpnessOrError ==
    Visited("Sharpness") =>
        IF \E n \in 1..9 : SharpnessScale[n] = cur.v.s
        THEN /\ WentOn
             /\ SharpnessScale[recipe.Sharpness + 5] = cur.v.s
        ELSE Failed

\* The value of the pair fails its normalizer, as the specification defines
\* the normalizers, or is neither a string nor a number.
FailsNormalizer(k, v) ==
    /\ k \in TagNames \ {"Subject"}
    /\ \/ v.type \notin {"string", "float64"}
       \/ /\ v.type = "string"
          /\ \/ k = "WhiteBalanceFineTune"
                /\ v.s # <<>>
                /\ FindFineTune(v.s) = <<>>
             \/ k \in DOMAIN ToneField
                /\ v.s \notin {<<>>, S_Normal}
                /\ FindInt(v.s) = <<>>
             \/ k = "Sharpness"
                /\ \A n \in 1..9 : SharpnessScale[n] # v.s

\* C9 as stated: the extraction is fail-fast: once the value of a pair fails
\* its normalizer or is neither string nor number, GetRecipeFromFile returns
\* an error and the zero Recipe, and Detect returns that error with an empty
\* result and perfectMatch = false, having ranked nothing.
C9_FailFast == FailsNormalizer(cur.k, cur.v) => Failed

\* GetRecipeFromFile for the mapping m, whatever the order the loop visits
\* its pairs in: the set of the outcomes of the loop. A panic returns nothing.
RECURSIVE LoopOutcomes(_, _, _)
LoopOutcomes(v, r, m) ==
    IF DOMAIN m = {} THEN {Continue(r)}
    ELSE UNION {LET o == LoopBody(v, r, k, m[k])
                IN  CASE o.kind = "next" ->
                           LoopOutcomes(v, o.recipe, Without(m, k))
                      [] o.kind = "error" -> {o}
                      [] o.kind = "panic" -> {Panic(ZeroRecipe)}
                : k \in DOMAIN m}

\* The maker notes that matter to a package: the root package reads none.
MakerNotesOf(v) ==
    IF v = "pkg" THEN MakerNotes
    ELSE {[status |-> "unread", grain |-> 0, clarity |-> 0]}

\* The outcomes of GetRecipeFromFile, given those of its loop and the maker
\* note mn.
Outcomes(v, loop, mn) ==
    {IF o.kind = "next" /\ v = "pkg" THEN MakerNote(o.recipe, mn) ELSE o :
        o \in loop}

\* The tag names the loop compares k with nowhere.
Unrecognized(v) == TagNames \ Recognized(v)

\* The values an added pair is given.
AddedValues == {Str(V_Fuji), Flt(10), Other}

\* The pairs that, added to the mapping, leave the outcomes of the extraction
\* as they were, among the pairs of an unrecognized tag and a value of X.
AddedPairsIgnored(X) ==
    LET without == LoopOutcomes(variant, NewRecipe, fields)
    IN  \A k \in Unrecognized(variant) \ DOMAIN fields :
            \A x \in X :
                LET with == LoopOutcomes(variant, NewRecipe, (k :> x) @@ fields)
                IN  \A mn \in MakerNotesOf(variant) :
                        Outcomes(variant, with, mn)
                            = Outcomes(variant, without, mn)

\* The extraction is about to start on a mapping that has room for a pair.
RoomForPair == pc = "start" /\ Cardinality(DOMAIN fields) < MaxTags

\* A pass of the tag loop over a pair of an unrecognized tag with a value of
\* one of the types T changes nothing of the record and fails nothing.
PassIgnored(T) ==
    (pc = "loop" /\ cur'.k \in Unrecognized(variant) /\ cur'.v.type \in T)
        => (pc' = "loop" /\ recipe' = recipe /\ err' = "nil")

\* C10 as stated: a pair of an unrecognized tag name, whatever its value,
\* leaves the outcome of the extraction as it was: the pass that visits it
\* goes on with the record as it was.
C10_UnrecognizedIgnored ==
    [][PassIgnored({"string", "float64", "other"})]_vars

\* C10 as stated, over whole extractions: no mapping has other outcomes with
\* the pair added.
C10_AddedPairIgnored == RoomForPair => AddedPairsIgnored(AddedValues)

\* C10, amended: a pair of an unrecognized tag name whose value is a string
\* or a number leaves the outcome of the extraction as it was: the pass that
\* visits it goes on with the record as it was, and no mapping has other
\* outcomes with the pair added.
C10_UnrecognizedStringOrNumberIgnored ==
    /\ [][PassIgnored({"string", "float64"})]_vars
    /\ [](RoomForPair =>
            AddedPairsIgnored({x \in AddedValues :
                                   x.type \in {"string", "float64"}}))

\* The loop has visited Sharpness and then the unrecognized Make, a string:
\* the record is the one Sharpness alone gives.
C10_Witness ==
    /\ pc = "loop"
    /\ DOMAIN fields = {}
    /\ cur = [k |-> "Make", v |-> Str(V_Fuji)]
    /\ recipe = [NewRecipe EXCEPT !.Sharpness = 4]

\* The place a stable sort by descending score gives the element at index i
\* of the slice: behind every element of a higher score and every earlier
\* element of the same score.
StablePlace(d, i) ==
    1 + Cardinality({j \in 1..Len(d) :
                        \/ Score(variant, d[j]) > Score(variant, d[i])
                        \/ Score(variant, d[j]) = Score(variant, d[i]) /\ j < i})

\* The slice sorted by descending score with ties left in their order.
StableSorted(d) ==
    [q \in 1..Len(d) |-> d[CHOOSE i \in 1..Len(d) : StablePlace(d, i) = q]]

\* The Differences of the top candidates in the order the library holds them.
TopInInputOrder ==
    LET all == StableSorted(Differences(recipe, recipes))
    IN  SubSeq(all, 1, Cardinality(TopCandidates))

Earliest(S) == CHOOSE i \in S : \A j \in S : i <= j

ScoredOrder ==
    <<"FilmSimulation", "GrainEffectSize", "GrainEffectRoughness",
      "ColorChromeEffect", "ColorChromeFXBlue", "WhiteBalanceMode",
      "WhiteBalanceRed", "WhiteBalanceBlue", "DynamicRange", "Highlights",
      "Shadows", "Color", "Sharpness", "NoiseReduction", "Clarity">>

\* The attribute f as text.
NameText(f) == RecipeFields[FieldIndex(f)].chars

\* t is the value x of the attribute f as text: the string itself, or the
\* decimal digits of the integer behind a "-" when it is negative.
IsTextOf(t, f, x) ==
    IF RecipeFields[FieldIndex(f)].kind = "string" THEN t = x
    ELSE /\ t # <<>>
         /\ Atoi(t) = x
         /\ t[1] = "-" <=> x < 0
         /\ \A n \in 2..Len(t) : IsDigit(t[n])

\* The place in the mismatch list of the n-th scored attribute, when it
\* differs: behind the triples of the differing attributes declared before it.
LinePlace(a, b, n) ==
    1 + Cardinality({m \in 1..(n - 1) : a[ScoredOrder[m]] # b[ScoredOrder[m]]})

\* C12: the mismatch list of a compared pair of records has exactly one
\* triple (field name, input value as text, candidate value as text) for each
\* scored attribute whose two values differ, none for the others, and the
\* triples are in the order the record declares its attributes.
C12_LinesInDeclarationOrder ==
    /\ {ScoredOrder[n] : n \in 1..Len(ScoredOrder)} = ScoredAttributes
    /\ \A i \in 1..Len(differences) :
          LET d == differences[i]
              a == d.Input
              b == d.Candidate
          IN  /\ Len(d.Lines) = Cardinality(Mismatching(a, b))
              /\ \A n \in 1..Len(ScoredOrder) :
                    LET f == ScoredOrder[n]
                    IN  a[f] # b[f] =>
                          LET line == d.Lines[LinePlace(a, b, n)]
                          IN  /\ Len(line) = 3
                              /\ line[1] = NameText(f)
                              /\ IsTextOf(line[2], f, a[f])
                              /\ IsTextOf(line[3], f, b[f])

\* A photograph compared with a recipe that differs in DynamicRange and in
\* Highlights, declared in that order, and with one that differs in all
\* fifteen scored attributes, a negative integer among them.
C12_Witness ==
    /\ Ranked
    /\ \E i \in 1..Len(differences) :
          /\ Len(differences[i].Lines) = 2
          /\ differences[i].Lines[1][1] = NameText("DynamicRange")
          /\ differences[i].Lines[2] = <<NameText("Highlights"), <<"2">>, <<"3">>>>
    /\ \E i \in 1..Len(differences) :
          /\ Len(differences[i].Lines) = 15
          /\ differences[i].Lines[13] = <<NameText("Sharpness"), <<"4">>, <<"5">>>>
          /\ differences[i].Lines[14][2] = <<"-", "4">>

\* The outcomes are one record, the same in every order, or a failure (an
\* error returned or a crash) in every order.
OneRecordOrAllFail(out) ==
    LET records == {o \in out : o.kind = "next"}
    IN  \/ records = {}
        \/ out = records /\ Cardinality(records) = 1

\* The pairs the tag loop has yet to visit and the record it visits them
\* with: the whole mapping and the new record before the loop starts.
LoopAhead == pc \in {"start", "loop"}

RecordAhead == IF pc = "start" THEN NewRecipe ELSE recipe

\* C13: the outcome of the extraction does not depend on the order the tag
\* loop visits the pairs of the mapping in: over all the orders it is one and
\* the same record, or a failure in every order, never a record in one order
\* and a failure or a crash in another.
C13_OrderIndependent ==
    LoopAhead =>
        LET loop == LoopOutcomes(variant, RecordAhead, fields)
        IN  \A mn \in MakerNotesOf(variant) :
                OneRecordOrAllFail(Outcomes(variant, loop, mn))

\* The loop has visited ShadowTone and then HighlightTone, the order against
\* that of the chain of ifs, and holds the record the other order gives too.
C13_Witness ==
    /\ pc = "loop"
    /\ DOMAIN fields = {}
    /\ cur = [k |-> "HighlightTone", v |-> Str(V_Plus2)]
    /\ recipe = [NewRecipe EXCEPT !.Highlights = 2, !.Shadows = -1]

\* The mapping fails in every order, by a crash when WhiteBalanceFineTune is
\* visited first and by an error when HighlightTone is: here the error.
C13_WitnessFailure ==
    /\ Failed
    /\ DOMAIN fields = {"WhiteBalanceFineTune", "HighlightTone"}
    /\ fields["WhiteBalanceFineTune"] = Str(<<>>)
    /\ cur.k = "HighlightTone"

====
